---- MODULE Spec2Model ----
(***************************************************************************)
(* A model of the crisp evaluator (src/crisp/src/eval.rs) and of the REPL  *)
(* driver that feeds it (src/repl/src/main.rs).                            *)
(*                                                                         *)
(* Expr values are records tagged by variant.  Constant(Atom::X(..)) is    *)
(* flattened to the atom record:                                           *)
(*   [tag |-> "Num", n]          Constant(Number(n))                       *)
(*   [tag |-> "Sym", name]       Constant(Symbol(name))                    *)
(*   [tag |-> "BuiltIn", op]     Constant(BuiltIn(op))                     *)
(*   [tag |-> "Nil"]             Nil                                       *)
(*   [tag |-> "Quote", items]    Quote(items)                              *)
(*   [tag |-> "Let", bindings]   Let(<< <<atom, expr>>, ... >>)            *)
(*   [tag |-> "If", pred, then, otherwise]   otherwise is <<>> or <<e>>    *)
(*   [tag |-> "Call", head, tail]                                          *)
(*   [tag |-> "Function", params, body]                                    *)
(***************************************************************************)
EXTENDS Integers, Sequences, FiniteSets, TLC

VARIABLES
    environment,      \* Context.environment: name -> Expr, Absent when unbound
    overflow_checks,  \* build profile: TRUE = arithmetic overflow panics
    crashed,          \* the process was aborted by a panic
    expr,             \* the argument of the last top-level eval call
    outcome,          \* what that call produced
    prevEnv,          \* Context.environment when that call started
    lastLet,          \* history: value stored by the latest executed Let pair
    evals,            \* number of top-level eval calls so far
    fn,               \* function-level checks: which function was applied
    fnIn,             \* function-level checks: its input
    fnOut             \* function-level checks: its output

vars == <<environment, overflow_checks, crashed, expr, outcome, prevEnv,
          lastLet, evals, fn, fnIn, fnOut>>

-----------------------------------------------------------------------------
(* Bounds *)

MaxEvals == 2      \* top-level eval calls per session
MaxIter == 8       \* loop re-entries (continue) within one top-level eval
MaxArgs == 3       \* length of the argument lists given to a built-in
MaxCurryArgs == 2  \* number of arguments supplied to a Function

-----------------------------------------------------------------------------
(* Expression constructors *)

Num(n) == [tag |-> "Num", n |-> n]
Sym(s) == [tag |-> "Sym", name |-> s]
BuiltIn(op) == [tag |-> "BuiltIn", op |-> op]
Nil == [tag |-> "Nil"]
Quote(items) == [tag |-> "Quote", items |-> items]
Let(bindings) == [tag |-> "Let", bindings |-> bindings]
If(p, t, o) == [tag |-> "If", pred |-> p, then |-> t, otherwise |-> o]
Call(h, t) == [tag |-> "Call", head |-> h, tail |-> t]
Function(params, body) == [tag |-> "Function", params |-> params, body |-> body]

Absent == [tag |-> "Absent"]

Names == {"x", "y", "f", "T"}

BuiltIns == {"Greater", "Less", "GreaterEqual", "LessEqual", "Plus", "Minus",
             "Times", "Equal", "NotEqual", "And", "Or", "Divide", "Not"}

-----------------------------------------------------------------------------
(* i32 arithmetic.  Every intermediate value stays inside the i32 range.   *)

I32_MAX == 2147483647
I32_MIN == -I32_MAX - 1

AddOverflows(a, b) == \/ b > 0 /\ a > I32_MAX - b
                      \/ b < 0 /\ a < I32_MIN - b

WrapAdd(a, b) ==
    IF b > 0 /\ a > I32_MAX - b THEN (a + I32_MIN) + (b + I32_MIN)
    ELSE IF b < 0 /\ a < I32_MIN - b THEN (a - I32_MIN) + (b - I32_MIN)
    ELSE a + b

SubOverflows(a, b) == \/ b < 0 /\ a > I32_MAX + b
                      \/ b > 0 /\ a < I32_MIN + b

WrapSub(a, b) ==
    IF b < 0 /\ a > I32_MAX + b THEN (a + I32_MIN) - (b - I32_MIN)
    ELSE IF b > 0 /\ a < I32_MIN + b THEN (a - I32_MIN) - (b + I32_MIN)
    ELSE a - b

MulOverflows(a, b) ==
    IF a = 0 \/ b = 0 THEN FALSE
    ELSE IF a > 0 /\ b > 0 THEN a > I32_MAX \div b
    ELSE IF a < 0 /\ b < 0
         THEN a = I32_MIN \/ b = I32_MIN \/ (-a) > I32_MAX \div (-b)
    ELSE LET p == IF a > 0 THEN a ELSE b
             m == IF a > 0 THEN b ELSE a
             q == I32_MIN \div p
         IN  m < q + (IF I32_MIN % p = 0 THEN 0 ELSE 1)

RECURSIVE WrapMulBits(_, _, _)
WrapMulBits(a, b, k) ==
    IF k = 0 \/ a = 0 \/ b = 0 THEN 0
    ELSE WrapAdd(IF b % 2 = 1 THEN a ELSE 0,
                 WrapMulBits(WrapAdd(a, a), b \div 2, k - 1))

WrapMul(a, b) == WrapMulBits(a, b, 32)

\* a / b of the host: the quotient rounded toward zero (b # 0, no overflow)
TruncDiv(a, b) ==
    LET q == a \div b
        exact == IF b > 0 THEN a % b = 0
                 ELSE IF b = I32_MIN THEN a = 0 \/ a = I32_MIN
                 ELSE a % (-b) = 0
    IN  IF ~exact /\ ((a < 0) # (b < 0)) THEN q + 1 ELSE q

Arith(n) == [st |-> "ok", n |-> n]
ArithPanic == [st |-> "panic", n |-> 0]

\* a + b, a - b, a * b: overflow panics when the build checks it, else wraps
add(a, b) == IF AddOverflows(a, b) /\ overflow_checks THEN ArithPanic
             ELSE Arith(WrapAdd(a, b))
sub(a, b) == IF SubOverflows(a, b) /\ overflow_checks THEN ArithPanic
             ELSE Arith(WrapSub(a, b))
mul(a, b) == IF MulOverflows(a, b) /\ overflow_checks THEN ArithPanic
             ELSE Arith(WrapMul(a, b))
\* a / b: a zero divisor and MIN / -1 panic in every build
div(a, b) == IF b = 0 \/ (a = I32_MIN /\ b = -1) THEN ArithPanic
             ELSE Arith(TruncDiv(a, b))

ArithOp(op, a, b) ==
    CASE op = "Plus" -> add(a, b)
      [] op = "Minus" -> sub(a, b)
      [] op = "Times" -> mul(a, b)
      [] op = "Divide" -> div(a, b)

\* Iterator::fold(acc, |a, b| a op b) over a list of i32
RECURSIVE fold(_, _, _)
fold(op, acc, ns) ==
    IF ns = <<>> THEN Arith(acc)
    ELSE LET r == ArithOp(op, acc, Head(ns))
         IN  IF r.st = "panic" THEN r ELSE fold(op, r.n, Tail(ns))

-----------------------------------------------------------------------------
(* Eval helpers *)

IsNumber(e) == e.tag = "Num"

expr_to_number(e) == IF IsNumber(e) THEN [ok |-> TRUE, n |-> e.n]
                     ELSE [ok |-> FALSE, n |-> 0]

number_to_expr(n) == Num(n)

\* expr_to_boolean with the number 0 also taken as false
expr_to_boolean_zero_false(e) ==
    IF e.tag = "Nil" THEN FALSE
    ELSE IF e.tag = "Quote" /\ Len(e.items) = 0 THEN FALSE
    ELSE IF e.tag = "Num" /\ e.n = 0 THEN FALSE
    ELSE TRUE

expr_to_boolean(e) ==
    IF e.tag = "Nil" THEN FALSE
    ELSE IF e.tag = "Quote" /\ Len(e.items) = 0 THEN FALSE
    ELSE TRUE

boolean_to_expr(b) == IF b THEN Sym("T") ELSE Nil

\* numbers(tail): every element coerced, or the failure of the first bad one
numbers(tail) ==
    IF \A i \in 1..Len(tail) : expr_to_number(tail[i]).ok
    THEN [ok |-> TRUE, ns |-> [i \in 1..Len(tail) |-> expr_to_number(tail[i]).n]]
    ELSE [ok |-> FALSE, ns |-> <<>>]

booleans(tail) == [i \in 1..Len(tail) |-> expr_to_boolean(tail[i])]

car(tail) == IF Len(tail) > 0 THEN <<tail[1]>> ELSE <<>>

cdr(tail) == IF Len(tail) > 0 THEN <<Tail(tail)>> ELSE <<>>

-----------------------------------------------------------------------------
(* Curry lambda by recursively translating each variable into its parameter *)

\* left.iter().position(|it| *it == symbol): first matching index, 0 if none
position(left, e) ==
    IF \E i \in 1..Len(left) : left[i] = e
    THEN CHOOSE i \in 1..Len(left) :
            left[i] = e /\ \A j \in 1..(i - 1) : left[j] # e
    ELSE 0

CurryOk(e, marked) == [ok |-> TRUE, expr |-> e, marked |-> marked]
CurryErr(marked) == [ok |-> FALSE, expr |-> Nil, marked |-> marked]

\* otherwise.and_then(|it| single(*it).ok().map(Box::new)) given single's result
otherwise_and_then(r) == IF r.ok THEN <<r.expr>> ELSE <<>>

RECURSIVE curry(_, _, _, _)
RECURSIVE curry_tail(_, _, _, _)

\* marked is mutated in place, so its marks survive a failure
curry(e, left, right, marked) ==
    LET index == position(left, e)
    IN  IF index # 0
        THEN LET m == [marked EXCEPT ![index] = TRUE]
             IN  IF index <= Len(right) THEN CurryOk(right[index], m)
                 ELSE CurryErr(m)
        ELSE IF e.tag = "Call"
        THEN LET h == curry(e.head, left, right, marked)
             IN  IF ~h.ok THEN h
                 ELSE LET t == curry_tail(e.tail, left, right, h.marked)
                      IN  IF ~t.ok THEN CurryErr(t.marked)
                          ELSE CurryOk(Call(h.expr, t.exprs), t.marked)
        ELSE IF e.tag = "If"
        THEN LET p == curry(e.pred, left, right, marked)
             IN  IF ~p.ok THEN p
                 ELSE LET t == curry(e.then, left, right, p.marked)
                      IN  IF ~t.ok THEN t
                          ELSE IF Len(e.otherwise) = 0
                          THEN CurryOk(If(p.expr, t.expr, <<>>), t.marked)
                          ELSE LET o == curry(e.otherwise[1], left, right, t.marked)
                               IN  CurryOk(If(p.expr, t.expr, otherwise_and_then(o)),
                                           o.marked)
        ELSE CurryOk(e, marked)

\* tail.into_iter().map(single).collect::<Result<Vec<_>, _>>(): stops at the
\* first failure
curry_tail(es, left, right, marked) ==
    IF es = <<>> THEN [ok |-> TRUE, exprs |-> <<>>, marked |-> marked]
    ELSE LET h == curry(Head(es), left, right, marked)
         IN  IF ~h.ok THEN [ok |-> FALSE, exprs |-> <<>>, marked |-> h.marked]
             ELSE LET t == curry_tail(Tail(es), left, right, h.marked)
                  IN  IF ~t.ok THEN t
                      ELSE [ok |-> TRUE, exprs |-> <<h.expr>> \o t.exprs,
                            marked |-> t.marked]

\* The residual parameters: those whose mark is still false, in order
RECURSIVE filter_unmarked(_, _)
filter_unmarked(args, marked) ==
    IF args = <<>> THEN <<>>
    ELSE (IF Head(marked) THEN <<>> ELSE <<Head(args)>>)
         \o filter_unmarked(Tail(args), Tail(marked))

\* The Function arm of a Call: substitute, then filter the parameters
apply_function(args, fexpr, tail) ==
    LET marked == [i \in 1..Len(args) |-> FALSE]
        body == curry(fexpr, args, tail, marked)
    IN  [ok |-> body.ok,
         args |-> IF body.ok THEN filter_unmarked(args, body.marked) ELSE <<>>,
         body |-> body.expr,
         marked |-> body.marked]

-----------------------------------------------------------------------------
(* Built-in operators over an evaluated argument list *)

Relation(op, a, b) ==
    CASE op = "Greater" -> a > b
      [] op = "Less" -> a < b
      [] op = "GreaterEqual" -> a >= b
      [] op = "LessEqual" -> a <= b

\* logic! looking at the first pair only instead of every window
logic_first_pair(tail, op) ==
    boolean_to_expr(\A i \in 1..(Len(tail) - 1) :
        i = 1 => /\ IsNumber(tail[i]) /\ IsNumber(tail[i + 1])
                 /\ Relation(op, tail[i].n, tail[i + 1].n))

\* logic!(tail => a op b): tail.windows(2).all(both numbers and a op b)
logic(tail, op) ==
    boolean_to_expr(\A i \in 1..(Len(tail) - 1) :
        /\ IsNumber(tail[i]) /\ IsNumber(tail[i + 1])
        /\ Relation(op, tail[i].n, tail[i + 1].n))

BOk(v) == [kind |-> "ok", val |-> v, err |-> ""]
BErr(msg) == [kind |-> "err", val |-> Nil, err |-> msg]
BPanic == [kind |-> "panic", val |-> Nil, err |-> ""]

FoldResult(r) == IF r.st = "panic" THEN BPanic ELSE BOk(number_to_expr(r.n))

\* Plus and Times: numbers(&tail)?.sum() and numbers(&tail)?.product()
sum_product(op, unit, tail) ==
    LET ns == numbers(tail)
    IN  IF ~ns.ok THEN BErr("TypeError") ELSE FoldResult(fold(op, unit, ns.ns))

\* Minus and Divide: the first argument seeds a fold over the rest
seeded_fold(op, tail) ==
    LET first == car(tail)
    IN  IF first # <<>> /\ expr_to_number(first[1]).ok
        THEN LET ns == numbers(cdr(tail)[1])
             IN  IF ~ns.ok THEN BErr("TypeError")
                 ELSE FoldResult(fold(op, expr_to_number(first[1]).n, ns.ns))
        ELSE BErr("ArityError")

built_in(op, tail) ==
    CASE op \in {"Greater", "Less", "GreaterEqual", "LessEqual"} ->
            BOk(logic(tail, op))
      [] op = "Plus" -> sum_product("Plus", 0, tail)
      [] op = "Minus" -> seeded_fold("Minus", tail)
      [] op = "Times" -> sum_product("Times", 1, tail)
      [] op = "Equal" ->
            BOk(boolean_to_expr(\A i \in 1..(Len(tail) - 1) : tail[i] = tail[i + 1]))
      [] op = "NotEqual" ->
            BOk(boolean_to_expr(\A i \in 1..(Len(tail) - 1) : tail[i] # tail[i + 1]))
      [] op = "And" ->
            BOk(boolean_to_expr(\A i \in 1..Len(tail) : booleans(tail)[i]))
      [] op = "Or" ->
            BOk(boolean_to_expr(\E i \in 1..Len(tail) : booleans(tail)[i]))
      [] op = "Divide" -> seeded_fold("Divide", tail)
      [] op = "Not" ->
            IF Len(tail) = 1 /\ car(tail) # <<>>
            THEN BOk(boolean_to_expr(~expr_to_boolean(car(tail)[1])))
            ELSE BErr("ArityError")

-----------------------------------------------------------------------------
(* Context::eval *)

Max(a, b) == IF a >= b THEN a ELSE b

\* The running state of one top-level eval call: the environment, the Let
\* pairs stored so far, the deepest nesting of active eval invocations and
\* the number of loop re-entries
EvalState(env) == [env |-> env, log |-> <<>>, depth |-> 0, iters |-> 0]

Ok(v, st) == [kind |-> "ok", val |-> v, err |-> "", st |-> st]
Err(msg, st) == [kind |-> "err", val |-> Nil, err |-> msg, st |-> st]
Panic(st) == [kind |-> "panic", val |-> Nil, err |-> "", st |-> st]
Timeout(st) == [kind |-> "timeout", val |-> Nil, err |-> "", st |-> st]

\* self.environment.get(&symbol)
env_get(env, name) == IF name \in DOMAIN env THEN env[name] ELSE Absent

\* insert that keeps an existing entry instead of replacing it
env_insert_keep_first(env, name, v) ==
    IF env[name] # Absent THEN env ELSE [env EXCEPT ![name] = v]

\* insert into a map that forgets its other entries
env_insert_clearing(env, name, v) ==
    [n \in DOMAIN env |-> IF n = name THEN v ELSE Absent]

\* self.environment.insert(name, expr)
env_insert(env, name, v) == [env EXCEPT ![name] = v]

\* the next working expression handed to a nested eval invocation
continue_level_nested(level) == level + 1

\* `expr = next; continue`: the loop goes on in the same invocation
continue_level(level) == level

RECURSIVE eval(_, _, _, _)
RECURSIVE eval_let(_, _, _, _)
RECURSIVE eval_tail(_, _, _, _)
RECURSIVE continue_with(_, _, _, _)

\* level is the nesting of this invocation, fuel the loop re-entries left
eval(e, st0, level, fuel) ==
    LET st == [st0 EXCEPT !.depth = Max(@, level)]
    IN  CASE e.tag = "Sym" ->
                LET found == env_get(st.env, e.name)
                IN  IF found # Absent THEN Ok(found, st)
                    ELSE Err("UnboundVariable", st)
          [] e.tag \in {"Num", "BuiltIn", "Quote"} -> Ok(e, st)
          [] e.tag = "Let" -> eval_let(e.bindings, st, level, fuel)
          [] e.tag = "If" ->
                LET predicate == eval(e.pred, st, level + 1, fuel)
                IN  IF predicate.kind # "ok" THEN predicate
                    ELSE IF expr_to_boolean(predicate.val)
                    THEN continue_with(e.then, predicate.st, level, fuel)
                    ELSE IF Len(e.otherwise) > 0
                    THEN continue_with(e.otherwise[1], predicate.st, level, fuel)
                    ELSE Err("NoBranchTaken", predicate.st)
          [] e.tag = "Call" ->
                LET head == eval(e.head, st, level + 1, fuel)
                IN  IF head.kind # "ok" THEN head
                    ELSE LET tail == eval_tail(e.tail, head.st, level + 1, fuel)
                         IN  IF tail.kind # "ok"
                             THEN [kind |-> tail.kind, val |-> Nil,
                                   err |-> tail.err, st |-> tail.st]
                             ELSE IF head.val.tag = "Function"
                             THEN LET f == apply_function(head.val.params,
                                                          head.val.body, tail.vals)
                                  IN  IF ~f.ok
                                      THEN Err("SubstitutionIndexError", tail.st)
                                      ELSE IF Len(f.args) = 0
                                      THEN continue_with(f.body, tail.st, level, fuel)
                                      ELSE Ok(Function(f.args, f.body), tail.st)
                             ELSE IF head.val.tag = "BuiltIn"
                             THEN LET b == built_in(head.val.op, tail.vals)
                                  IN  [kind |-> b.kind, val |-> b.val,
                                       err |-> b.err, st |-> tail.st]
                             ELSE Ok(head.val, tail.st)
          [] OTHER -> Ok(e, st)

continue_with(next, st, level, fuel) ==
    IF fuel = 0 THEN Timeout(st)
    ELSE eval(next, [st EXCEPT !.iters = @ + 1], continue_level(level), fuel - 1)

\* for item in items { ... }; return Ok(Expr::Nil)
eval_let(items, st, level, fuel) ==
    IF Len(items) = 0 THEN Ok(Nil, st)
    ELSE LET item == Head(items)
         IN  IF item[1].tag = "Sym"
             THEN LET r == eval(item[2], st, level + 1, fuel)
                  IN  IF r.kind # "ok" THEN r
                      ELSE eval_let(Tail(items),
                             [r.st EXCEPT
                                !.env = env_insert(@, item[1].name, r.val),
                                !.log = Append(@, <<item[1].name, r.val>>)],
                             level, fuel)
             ELSE Err("ExpectedSymbol", st)

\* tail.into_iter().map(|it| self.eval(it)).collect::<Result<Vec<_>, _>>()
eval_tail(es, st, level, fuel) ==
    IF Len(es) = 0 THEN [kind |-> "ok", vals |-> <<>>, err |-> "", st |-> st]
    ELSE LET h == eval(Head(es), st, level, fuel)
         IN  IF h.kind # "ok"
             THEN [kind |-> h.kind, vals |-> <<>>, err |-> h.err, st |-> h.st]
             ELSE LET t == eval_tail(Tail(es), h.st, level, fuel)
                  IN  IF t.kind # "ok" THEN t
                      ELSE [t EXCEPT !.vals = <<h.val>> \o @]

-----------------------------------------------------------------------------
(* The expressions the driver feeds to eval *)

Plus == BuiltIn("Plus")
x == Sym("x")
y == Sym("y")
f == Sym("f")

\* Function([x, y], Call(+, [x, y]))
AddFn == Function(<<x, y>>, Call(Plus, <<x, y>>))
\* Function([x], x)
IdFn == Function(<<x>>, x)
\* Function([x], If(=(x, 0), 0, Call(f, [-(x, 1)]))): calls itself through f
CountdownFn ==
    Function(<<x>>, If(Call(BuiltIn("Equal"), <<x, Num(0)>>), Num(0),
                       <<Call(f, <<Call(BuiltIn("Minus"), <<x, Num(1)>>)>>)>>))
\* Function([x], Call(f, [x])): never returns once bound to f
LoopFn == Function(<<x>>, Call(f, <<x>>))
\* Function([x], If(x, If(x, If(x, x)))): a chain of tail branches
ChainFn == Function(<<x>>, If(x, If(x, If(x, x, <<>>), <<>>), <<>>))
\* Function([x, y], If(x, 1, y))
ElseFn == Function(<<x, y>>, If(x, Num(1), <<y>>))

LetOne(name, e) == Let(<< <<Sym(name), e>> >>)

Leaves == {Num(0), Num(1), Nil, Quote(<<>>), Quote(<<Num(1)>>), x, y, f, Sym("T")}

Lets ==
    {LetOne(n, v) : n \in {"x", "y"},
                    v \in {Num(5), Num(6), Nil, x, Call(Plus, <<x, Num(1)>>)}}
    \cup {LetOne("f", v) : v \in {AddFn, CountdownFn, LoopFn}}
    \cup {LetOne("T", Num(1)),
          Let(<<>>),
          Let(<< <<x, Num(2)>>, <<y, x>> >>),
          Let(<< <<x, Num(3)>>, <<y, Sym("T")>> >>),
          Let(<< <<x, Num(4)>>, <<Num(1), Num(2)>> >>),
          Let(<< <<x, Num(1)>>, <<x, Call(Plus, <<x, x>>)>> >>)}

Ifs ==
    {If(p, t, o) :
        p \in {Nil, Quote(<<>>), Quote(<<Num(1)>>), Num(0), x,
               Call(BuiltIn("Less"), <<Num(1), Num(2)>>), LetOne("y", Nil)},
        t \in {Num(1), LetOne("x", Num(7))},
        o \in {<<>>, <<Num(2)>>, <<LetOne("y", Num(8))>>}}

BuiltInCalls ==
    {Call(BuiltIn(op), t) :
        op \in BuiltIns,
        t \in {<<>>, <<Num(7)>>, <<Num(1), Num(0)>>, <<x, Num(2)>>,
               <<Num(I32_MAX), Num(1)>>, <<Num(I32_MIN), Num(-1)>>,
               <<LetOne("x", Num(9)), y>>}}

FunctionCalls ==
    {Call(AddFn, <<Num(1)>>), Call(AddFn, <<Num(2)>>), Call(f, <<Num(1)>>),
     Call(AddFn, <<Num(1), Num(2)>>),
     Call(Function(<<y>>, Call(Plus, <<Num(1), y>>)), <<Num(2)>>),
     Call(Call(AddFn, <<Num(1)>>), <<Num(2)>>),
     Call(IdFn, <<Num(1)>>), Call(IdFn, <<Nil>>), Call(IdFn, <<AddFn>>),
     Call(IdFn, <<Call(BuiltIn("Equal"), <<Num(1), Num(1)>>)>>),
     Call(f, <<Num(0)>>), Call(f, <<Num(2)>>), Call(f, <<Num(3)>>),
     Call(ChainFn, <<Num(1)>>), Call(ChainFn, <<Nil>>),
     Call(ElseFn, <<Num(5)>>), Call(ElseFn, <<Nil>>),
     Call(ElseFn, <<Nil, Num(2)>>),
     Call(Function(<<x, y>>, x), <<Num(1), Num(2)>>),
     Call(Function(<<>>, Num(1)), <<>>),
     Call(Num(1), <<Num(2)>>), Call(Nil, <<LetOne("x", Num(1))>>),
     AddFn}

Programs == Leaves \cup Lets \cup Ifs \cup BuiltInCalls \cup FunctionCalls

-----------------------------------------------------------------------------
(* The REPL session: one long-lived Context, one eval call per step *)

NoOutcome == [kind |-> "none", val |-> Nil, err |-> "", st |-> EvalState(<<>>)]

EmptyEnv == [n \in Names |-> Absent]

\* The history of Let pairs: the latest value stored under each name
RECURSIVE ApplyLog(_, _)
ApplyLog(h, log) ==
    IF Len(log) = 0 THEN h
    ELSE ApplyLog([h EXCEPT ![Head(log)[1]] = Head(log)[2]], Tail(log))

Init ==
    /\ environment = EmptyEnv
    /\ overflow_checks \in BOOLEAN
    /\ crashed = FALSE
    /\ expr = Nil
    /\ outcome = NoOutcome
    /\ prevEnv = EmptyEnv
    /\ lastLet = EmptyEnv
    /\ evals = 0
    /\ fn = "eval"
    /\ fnIn = <<>>
    /\ fnOut = <<>>

\* One iteration of the driver's loop: eval the expression on the context,
\* report a value or an error and go on; a panic ends the process.  A call
\* that needs more than MaxIter loop re-entries is not followed (the real
\* call is still running, or never returns)
Eval(e) ==
    /\ ~crashed
    /\ evals < MaxEvals
    /\ LET r == eval(e, EvalState(environment), 1, MaxIter)
       IN  /\ r.kind # "timeout"
           /\ outcome' = r
           /\ environment' = r.st.env
           /\ crashed' = (r.kind = "panic")
           /\ lastLet' = ApplyLog(lastLet, r.st.log)
    /\ expr' = e
    /\ prevEnv' = environment
    /\ evals' = evals + 1
    /\ UNCHANGED <<overflow_checks, fn, fnIn, fnOut>>

Next == \E e \in Programs : Eval(e)

Spec == Init /\ [][Next]_vars

-----------------------------------------------------------------------------
(* A built-in applied to an evaluated argument list *)

ArgValues == {Num(-1), Num(0), Num(1), Num(2), Num(3), Num(I32_MAX),
              Num(I32_MIN), Nil, Sym("T"), Quote(<<>>)}

ArgLists == UNION {[1..n -> ArgValues] : n \in 0..MaxArgs}

InitFn ==
    /\ environment = EmptyEnv
    /\ overflow_checks \in BOOLEAN
    /\ crashed = FALSE
    /\ expr = Nil
    /\ outcome = NoOutcome
    /\ prevEnv = EmptyEnv
    /\ lastLet = EmptyEnv
    /\ evals = 0
    /\ fn = "none"
    /\ fnOut = <<>>

InitBuiltIn ==
    /\ InitFn
    /\ fnIn \in [op : BuiltIns, tail : ArgLists]

ApplyBuiltIn ==
    /\ fn = "none"
    /\ fn' = "built_in"
    /\ fnOut' = built_in(fnIn.op, fnIn.tail)
    /\ UNCHANGED <<environment, overflow_checks, crashed, expr, outcome,
                   prevEnv, lastLet, evals, fnIn>>

NextBuiltIn == ApplyBuiltIn

SpecBuiltIn == InitBuiltIn /\ [][NextBuiltIn]_vars

-----------------------------------------------------------------------------
(* A Function applied to an evaluated argument list *)

BodyLeaves == {x, y, Num(1), Nil}

Bodies ==
    BodyLeaves
    \cup {Call(Plus, <<a, b>>) : a, b \in BodyLeaves}
    \cup {If(a, b, o) : a, b \in BodyLeaves,
                        o \in {<<>>} \cup {<<c>> : c \in BodyLeaves}}
    \cup {If(x, Num(1), <<Call(Plus, <<x, y>>)>>),
          If(Num(1), Num(1), <<Call(Plus, <<y, x>>)>>),
          Call(x, <<y>>), Call(y, <<>>),
          Call(Plus, <<If(x, y, <<>>), Num(1)>>),
          Function(<<x>>, x), Quote(<<x, y>>), LetOne("y", x)}

ParamLists == {<<>>, <<x>>, <<x, y>>, <<y, x>>, <<x, x>>}

SuppliedArgs == UNION {[1..n -> {Num(5), Num(7)}] : n \in 0..MaxCurryArgs}

InitCurry ==
    /\ InitFn
    /\ fnIn \in [args : ParamLists, fexpr : Bodies, tail : SuppliedArgs]

ApplyFunction ==
    /\ fn = "none"
    /\ fn' = "apply_function"
    /\ fnOut' = apply_function(fnIn.args, fnIn.fexpr, fnIn.tail)
    /\ UNCHANGED <<environment, overflow_checks, crashed, expr, outcome,
                   prevEnv, lastLet, evals, fnIn>>

NextCurry == ApplyFunction

SpecCurry == InitCurry /\ [][NextCurry]_vars

-----------------------------------------------------------------------------
(* Properties *)

\* The observable part of an eval result: value or failure, the environment
\* it leaves and the Let pairs it stored
Same(a, b) ==
    /\ a.kind = b.kind
    /\ a.val = b.val
    /\ a.err = b.err
    /\ a.st.env = b.st.env
    /\ a.st.log = b.st.log

Lookup(n) == eval(Sym(n), EvalState(environment), 1, MaxIter)

\* C1: a call of Function([x, y], Call(+, [x, y])) with the single argument
\* val returns Function([y], Call(+, [val, y]))
C1_PartialApplication ==
    \A v \in {1, 2} :
        expr = Call(AddFn, <<Num(v)>>) =>
            /\ outcome.kind = "ok"
            /\ outcome.val = Function(<<y>>, Call(Plus, <<Num(v), y>>))

\* C2 as stated: after a failed eval call every binding that existed before
\* the call is still there with the same value
C2_FailureKeepsBindings ==
    outcome.kind = "err" =>
        \A n \in Names : prevEnv[n] # Absent => environment[n] = prevEnv[n]

\* C2 amended: after a failed eval call every name bound before the call is
\* still bound, and its value is the old one unless a Let pair for that name
\* was stored during the call before it failed; a failed lookup of an
\* unknown symbol leaves the environment unchanged
C2_FailureKeepsUnwritten ==
    outcome.kind = "err" =>
        /\ \A n \in Names :
              prevEnv[n] # Absent =>
                /\ environment[n] # Absent
                /\ environment[n] # prevEnv[n] =>
                      \E i \in 1..Len(outcome.st.log) :
                          /\ outcome.st.log[i][1] = n
                          /\ \A j \in (i + 1)..Len(outcome.st.log) :
                                outcome.st.log[j][1] # n
                          /\ environment[n] = outcome.st.log[i][2]
        /\ Len(outcome.st.log) = 0 => environment = prevEnv
        /\ (expr.tag = "Sym" /\ outcome.err = "UnboundVariable") =>
              environment = prevEnv

C2_Witness ==
    /\ outcome.kind = "err"
    /\ prevEnv["x"] = Num(5)
    /\ environment["x"] = Num(3)
    /\ prevEnv["y"] = environment["y"]

\* What a Let of the given pairs leaves in the environment: the pairs are
\* applied in order, each right-hand side evaluated in the environment the
\* earlier pairs produced, a later value replacing an earlier one
RECURSIVE LetResult(_, _)
LetResult(items, env) ==
    IF Len(items) = 0 THEN env
    ELSE LET r == eval(Head(items)[2], EvalState(env), 2, MaxIter)
         IN  LetResult(Tail(items),
                       [r.st.env EXCEPT ![Head(items)[1].name] = r.val])

\* C3: a symbol evaluates to the value of the most recently executed Let
\* pair for it (and fails if there was none), in any later eval call; a Let
\* applies its pairs in order and returns Nil
C3_LetLastWriteWins ==
    /\ \A n \in Names :
          IF lastLet[n] # Absent
          THEN /\ Lookup(n).kind = "ok"
               /\ Lookup(n).val = lastLet[n]
          ELSE Lookup(n).kind = "err"
    /\ (expr.tag = "Let" /\ outcome.kind = "ok") =>
          /\ outcome.val = Nil
          /\ environment = LetResult(expr.bindings, prevEnv)

C3_Witness ==
    /\ expr = LetOne("x", Num(6))
    /\ outcome.kind = "ok"
    /\ prevEnv["x"] = Num(5)
    /\ Lookup("x").val = Num(6)

\* C4: no eval call aborts the process
C4_NeverAborts == ~crashed

\* The falsy values named by C5
Falsy(v) == v = Nil \/ v = Quote(<<>>)

\* C5: If evaluates the predicate; unless the predicate's value is Nil or an
\* empty Quote the call behaves exactly as evaluating `then` after it, else
\* exactly as evaluating `otherwise`, and fails with NoBranchTaken when
\* there is none
C5_IfSemantics ==
    expr.tag = "If" =>
        LET p == eval(expr.pred, EvalState(prevEnv), 2, MaxIter)
        IN  IF p.kind # "ok" THEN Same(outcome, p)
            ELSE IF ~Falsy(p.val)
            THEN Same(outcome, eval(expr.then, p.st, 1, MaxIter - 1))
            ELSE IF Len(expr.otherwise) = 1
            THEN Same(outcome, eval(expr.otherwise[1], p.st, 1, MaxIter - 1))
            ELSE /\ outcome.kind = "err"
                 /\ outcome.err = "NoBranchTaken"
                 /\ outcome.st.env = p.st.env

C5_Witness ==
    /\ expr = If(Num(0), LetOne("x", Num(7)), <<LetOne("y", Num(8))>>)
    /\ outcome.kind = "ok"
    /\ prevEnv["x"] = Absent
    /\ environment["x"] = Num(7)
    /\ environment["y"] = Absent

\* The operator table of C6, over an evaluated argument list t
AllNumbers(t) == \A i \in 1..Len(t) : t[i].tag = "Num"
Truth(b) == IF b THEN Sym("T") ELSE Nil
Truthy(v) == ~Falsy(v)
AdjacentPairs(t) == 1..(Len(t) - 1)

\* The exact result of one step, and whether it is an i32
StepInRange(op, a, b) ==
    CASE op = "Plus" -> ~AddOverflows(a, b)
      [] op = "Minus" -> ~SubOverflows(a, b)
      [] op = "Times" -> ~MulOverflows(a, b)
      [] op = "Divide" -> b # 0 /\ ~(a = I32_MIN /\ b = -1)

ExactStep(op, a, b) ==
    CASE op = "Plus" -> a + b
      [] op = "Minus" -> a - b
      [] op = "Times" -> a * b
      [] op = "Divide" -> TruncDiv(a, b)

\* Every running result of the left fold is an i32
RECURSIVE FoldInRange(_, _, _)
FoldInRange(op, acc, t) ==
    IF Len(t) = 0 THEN TRUE
    ELSE /\ StepInRange(op, acc, Head(t).n)
         /\ FoldInRange(op, ExactStep(op, acc, Head(t).n), Tail(t))

RECURSIVE LeftFold(_, _, _)
LeftFold(op, acc, t) ==
    IF Len(t) = 0 THEN acc
    ELSE LeftFold(op, ExactStep(op, acc, Head(t).n), Tail(t))

Compare(op, a, b) ==
    CASE op = "Less" -> a < b
      [] op = "Greater" -> a > b
      [] op = "LessEqual" -> a <= b
      [] op = "GreaterEqual" -> a >= b

TableInRange(op, t) ==
    CASE op \in {"Plus", "Times"} ->
            AllNumbers(t) => FoldInRange(op, IF op = "Plus" THEN 0 ELSE 1, t)
      [] op \in {"Minus", "Divide"} ->
            (Len(t) > 0 /\ AllNumbers(t)) => FoldInRange(op, t[1].n, Tail(t))
      [] OTHER -> TRUE

\* "ok" with the value, or "err"
Table(op, t) ==
    CASE op \in {"Plus", "Times"} ->
            IF AllNumbers(t)
            THEN <<"ok", Num(LeftFold(op, IF op = "Plus" THEN 0 ELSE 1, t))>>
            ELSE <<"err", Nil>>
      [] op \in {"Minus", "Divide"} ->
            IF Len(t) > 0 /\ AllNumbers(t)
            THEN <<"ok", Num(LeftFold(op, t[1].n, Tail(t)))>>
            ELSE <<"err", Nil>>
      [] op = "Equal" ->
            <<"ok", Truth(\A i \in AdjacentPairs(t) : t[i] = t[i + 1])>>
      [] op = "NotEqual" ->
            <<"ok", Truth(\A i \in AdjacentPairs(t) : t[i] # t[i + 1])>>
      [] op \in {"Less", "Greater", "LessEqual", "GreaterEqual"} ->
            <<"ok", Truth(\A i \in AdjacentPairs(t) :
                            /\ t[i].tag = "Num"
                            /\ t[i + 1].tag = "Num"
                            /\ Compare(op, t[i].n, t[i + 1].n))>>
      [] op = "And" -> <<"ok", Truth(\A i \in 1..Len(t) : Truthy(t[i]))>>
      [] op = "Or" -> <<"ok", Truth(\E i \in 1..Len(t) : Truthy(t[i]))>>
      [] op = "Not" ->
            IF Len(t) = 1 THEN <<"ok", Truth(~Truthy(t[1]))>>
            ELSE <<"err", Nil>>

\* C6: on every argument list whose running results stay in the i32 range
\* each built-in returns what the operator table says, true being
\* Constant(Symbol("T")) and false Nil
C6_BuiltInTable ==
    (fn = "built_in" /\ TableInRange(fnIn.op, fnIn.tail)) =>
        <<fnOut.kind, fnOut.val>> = Table(fnIn.op, fnIn.tail)

C6_Witness ==
    /\ fn = "built_in"
    /\ fnIn.op = "Less"
    /\ fnIn.tail = <<Num(1), Num(3), Num(2)>>
    /\ fnOut.kind = "ok"
    /\ fnOut.val = Nil

\* C7: the chosen If branch and the substituted body of a saturated call
\* run in the eval invocation that chose them, so the deepest nesting of a
\* top-level call is the deeper of the non-tail part (predicate, head,
\* arguments) at nesting 2 and the tail part at nesting 1; the countdown
\* through f nests 3 deep whatever its length
C7_TailPositionsDoNotNest ==
    /\ (expr.tag = "If" /\ outcome.kind = "ok") =>
          LET p == eval(expr.pred, EvalState(prevEnv), 2, MaxIter)
              branch == IF ~Falsy(p.val) THEN expr.then ELSE expr.otherwise[1]
              b == eval(branch, [p.st EXCEPT !.depth = 1], 1, MaxIter - 1)
          IN  outcome.st.depth = Max(p.st.depth, b.st.depth)
    /\ (expr.tag = "Call" /\ outcome.kind = "ok") =>
          LET h == eval(expr.head, EvalState(prevEnv), 2, MaxIter)
              t == eval_tail(expr.tail, h.st, 2, MaxIter)
              a == apply_function(h.val.params, h.val.body, t.vals)
              b == eval(a.body, [t.st EXCEPT !.depth = 1], 1, MaxIter - 1)
          IN  (h.val.tag = "Function" /\ Len(a.args) = 0) =>
                  outcome.st.depth = Max(t.st.depth, b.st.depth)
    /\ \A n \in 0..3 :
          (/\ expr = Call(f, <<Num(n)>>)
           /\ prevEnv["f"] = CountdownFn
           /\ outcome.kind = "ok") =>
              /\ outcome.st.iters = 2 * n + 2
              /\ outcome.st.depth = 3

C7_Witness ==
    /\ expr = Call(f, <<Num(3)>>)
    /\ prevEnv["f"] = CountdownFn
    /\ outcome.kind = "ok"
    /\ outcome.st.iters = 8
    /\ outcome.st.depth = 3

\* The parameter indices whose occurrences substitution can reach in e:
\* e itself, Call heads and arguments, If predicate, then and otherwise
RECURSIVE Reached(_, _)
Reached(e, left) ==
    IF position(left, e) # 0 THEN {position(left, e)}
    ELSE IF e.tag = "Call"
    THEN Reached(e.head, left)
         \cup UNION {Reached(e.tail[i], left) : i \in 1..Len(e.tail)}
    ELSE IF e.tag = "If"
    THEN Reached(e.pred, left) \cup Reached(e.then, left)
         \cup UNION {Reached(e.otherwise[i], left) : i \in 1..Len(e.otherwise)}
    ELSE {}

\* Substitution of e fails: it reaches a parameter with no argument
Unsupplied(e, left, right) == \E i \in Reached(e, left) : i > Len(right)

\* C8: when only the else branch of an If body reaches a parameter without
\* an argument, the substitution succeeds and keeps that else branch as it
\* was
C8_ElseBranchKept ==
    (/\ fn = "apply_function"
     /\ fnIn.fexpr.tag = "If"
     /\ position(fnIn.args, fnIn.fexpr) = 0
     /\ Len(fnIn.fexpr.otherwise) = 1
     /\ ~Unsupplied(fnIn.fexpr.pred, fnIn.args, fnIn.tail)
     /\ ~Unsupplied(fnIn.fexpr.then, fnIn.args, fnIn.tail)
     /\ Unsupplied(fnIn.fexpr.otherwise[1], fnIn.args, fnIn.tail)) =>
        /\ fnOut.ok
        /\ fnOut.body.tag = "If"
        /\ fnOut.body.otherwise = fnIn.fexpr.otherwise

\* C9: after a successful substitution the residual parameters are, in
\* order, exactly those whose argument replaced no occurrence in the body
C9_ResidualIsUnsubstituted ==
    (fn = "apply_function" /\ fnOut.ok) =>
        LET replaced == {i \in Reached(fnIn.fexpr, fnIn.args) :
                            i <= Len(fnIn.tail)}
            kept == [i \in 1..Len(fnIn.args) |-> i \notin replaced]
        IN  fnOut.args =
              filter_unmarked(fnIn.args, [i \in 1..Len(fnIn.args) |-> ~kept[i]])

\* C10: a value returned by eval is not a Let, If or Call, and evaluating it
\* again returns it and leaves the environment as it is
C10_ValuesAreFixedPoints ==
    outcome.kind = "ok" =>
        /\ outcome.val.tag \notin {"Let", "If", "Call"}
        /\ LET again == eval(outcome.val, EvalState(environment), 1, MaxIter)
           IN  /\ again.kind = "ok"
               /\ again.val = outcome.val
               /\ again.st.env = environment

====
